---- MODULE Spec2Model ----
(***************************************************************************)
(* A model of kindle_clips.py: the five-line segmentation loop of          *)
(* parse_rawclips_file, the classification and field extraction of         *)
(* parse_rawclip, the three output formatters and the main script.         *)
(*                                                                         *)
(* Text is modelled as TLA+ strings, character by character: the regular   *)
(* expressions of the extraction functions are translated into scanners    *)
(* over the characters of the info line, int() and str() convert between   *)
(* digit strings and numbers, and a raised exception is an outcome of its  *)
(* own (a record tagged "raise").                                          *)
(***************************************************************************)
EXTENDS Integers, Sequences, FiniteSets, TLC

VARIABLES
    file,           \* the lines of the input file, each still ending in "\n"
    args,           \* the parsed command line: [types, format, quiet]
    pos,            \* lines of file the for loop has consumed
    current_clip,   \* parse_rawclips_file: the lines collector
    cnt,            \* parse_rawclips_file: position inside the group, 1..5
    line_cnt,       \* parse_rawclips_file: the line counter
    highlights,     \* the four buckets of the Extraction
    notes,
    bookmarks,
    unparsed,
    built,          \* history: the RawClips constructed so far (line 86)
    pc,             \* where the program is
    exc,            \* the exception that ended the program, or "none"
    results,        \* main: the clips selected for output
    stdout,         \* what the program printed, one entry per print call
    written,        \* what the program wrote to the file given by --output
    string,         \* the argument of a field extractor called on its own
    given,          \* the parts that argument was put together from
    pp,             \* the argument of pages_and_loc_to_str called on its own
    ret             \* the value the function called on its own returned

vars == <<file, args, pos, current_clip, cnt, line_cnt, highlights, notes,
          bookmarks, unparsed, built, pc, exc, results, stdout, written,
          string, given, pp, ret>>

(***************************************************************************)
(* Characters and strings                                                  *)
(***************************************************************************)
DIGITS == "0123456789"
UPPER == "ABCDEFGHIJKLMNOPQRSTUVWXYZ"
LOWER == "abcdefghijklmnopqrstuvwxyz"

\* s[i] of Python (1-based here), "" past the end
Ch(s, i) == IF i >= 1 /\ i <= Len(s) THEN SubSeq(s, i, i) ELSE ""

\* s[i-1:] of Python
From(s, i) == IF i > Len(s) THEN "" ELSE SubSeq(s, i, Len(s))

CharsOf(s) == { SubSeq(s, i, i) : i \in 1..Len(s) }

\* the regex class [0-9]
Digit == CharsOf(DIGITS)

UpperLetter == CharsOf(UPPER)

LowerLetter == CharsOf(LOWER)

\* the regex class [a-z] under IGNORECASE, on ASCII text
Letter == UpperLetter \cup LowerLetter

\* the regex class [AMP] under IGNORECASE
AMPClass == {"A", "M", "P", "a", "m", "p"}

DigitValue == [ c \in Digit |-> (CHOOSE i \in 1..10 : SubSeq(DIGITS, i, i) = c) - 1 ]

ToLower == [ c \in UpperLetter |-> Ch(LOWER, CHOOSE i \in 1..26 : SubSeq(UPPER, i, i) = c) ]

ToUpper == [ c \in LowerLetter |-> Ch(UPPER, CHOOSE i \in 1..26 : SubSeq(LOWER, i, i) = c) ]

LowerCh(c) == IF c \in UpperLetter THEN ToLower[c] ELSE c

UpperCh(c) == IF c \in LowerLetter THEN ToUpper[c] ELSE c

RECURSIVE lower(_)
\* str.lower
lower(s) == IF s = "" THEN "" ELSE LowerCh(Head(s)) \o lower(Tail(s))

RECURSIVE upper(_)
\* str.upper
upper(s) == IF s = "" THEN "" ELSE UpperCh(Head(s)) \o upper(Tail(s))

\* str.startswith
startswith(s, prefix) ==
    Len(s) >= Len(prefix) /\ SubSeq(s, 1, Len(prefix)) = prefix

\* str.removesuffix
removesuffix(s, suffix) ==
    IF suffix # "" /\ Len(s) >= Len(suffix)
          /\ SubSeq(s, Len(s) - Len(suffix) + 1, Len(s)) = suffix
    THEN SubSeq(s, 1, Len(s) - Len(suffix))
    ELSE s

RECURSIVE int(_)
\* int() of a string of decimal digits
int(s) ==
    IF s = "" THEN 0
    ELSE 10 * int(SubSeq(s, 1, Len(s) - 1)) + DigitValue[Ch(s, Len(s))]

RECURSIVE str(_)
\* str() of a natural number
str(n) == IF n < 10 THEN Ch(DIGITS, n + 1) ELSE str(n \div 10) \o Ch(DIGITS, (n % 10) + 1)

RECURSIVE zfill(_, _)
\* the %0wd of the standard library's date and time formatting
zfill(s, w) == IF Len(s) >= w THEN s ELSE zfill("0" \o s, w)

(***************************************************************************)
(* Regular expression pieces.  A pattern is tried at every start index     *)
(* from left to right (re.search), its alternatives in order, and every    *)
(* quantifier in it is greedy.  In each pattern below the character that   *)
(* must follow a repetition is outside the repeated class, so the only     *)
(* run that can match is the maximal one and backtracking finds nothing    *)
(* else.                                                                   *)
(***************************************************************************)
\* a literal of the pattern at index i, under IGNORECASE
LitAt(s, i, lit) ==
    /\ i >= 1
    /\ i + Len(lit) - 1 <= Len(s)
    /\ \A k \in 1..Len(lit) : LowerCh(Ch(s, i + k - 1)) = LowerCh(Ch(lit, k))

RECURSIVE RunEnd(_, _, _)
\* the index after the longest run of characters of class that starts at i
RunEnd(s, i, class) ==
    IF i <= Len(s) /\ Ch(s, i) \in class THEN RunEnd(s, i + 1, class) ELSE i

\* the start index re.search reports: the smallest of the matching ones, 0 for None
FirstOf(starts) ==
    IF starts = {} THEN 0 ELSE CHOOSE i \in starts : \A j \in starts : i <= j

(***************************************************************************)
(* Results.  None is NoneVal, a raised exception is Raise(name).           *)
(***************************************************************************)
NoneVal == [tag |-> "None"]

Raise(e) == [tag |-> "raise", exc |-> e]

IsRaise(v) == v.tag = "raise"

(***************************************************************************)
(* parse_page_info and parse_location_info                                 *)
(*   r'pages? ([0-9]+)-([0-9]+)|page ([0-9]+)'                             *)
(*   r'Location ([0-9]+)-([0-9]+)|Location ([0-9]+)'                       *)
(***************************************************************************)
\* first alternative at i: keyword, the optional plural "s" when the pattern
\* has one, a space, digits, "-", digits.  Yields the groups or <<>>.
RangeAt(s, i, kw, plural) ==
    IF ~LitAt(s, i, kw) THEN <<>>
    ELSE LET j  == i + Len(kw)
             k  == IF plural /\ LitAt(s, j, "s") THEN j + 1 ELSE j
             e1 == RunEnd(s, k + 1, Digit)
             e2 == RunEnd(s, e1 + 1, Digit)
         IN  IF Ch(s, k) = " " /\ e1 > k + 1 /\ Ch(s, e1) = "-" /\ e2 > e1 + 1
             THEN <<SubSeq(s, k + 1, e1 - 1), SubSeq(s, e1 + 1, e2 - 1)>>
             ELSE <<>>

\* second alternative at i: keyword, a space, digits.  Yields the group or <<>>.
SingleAt(s, i, kw) ==
    IF ~LitAt(s, i, kw) THEN <<>>
    ELSE LET k == i + Len(kw)
             e == RunEnd(s, k + 1, Digit)
         IN  IF Ch(s, k) = " " /\ e > k + 1
             THEN <<SubSeq(s, k + 1, e - 1)>>
             ELSE <<>>

\* the groups of the pattern at i that are not None: those of the first
\* alternative when it matches, else those of the second; <<>> for no match
NumberAt(s, i, kw, plural) ==
    IF i < 1 THEN <<>>
    ELSE IF RangeAt(s, i, kw, plural) # <<>> THEN RangeAt(s, i, kw, plural)
    ELSE SingleAt(s, i, kw)

\* match.groups() without the None ones, for the leftmost match; <<>> for no match
NumberGroups(s, kw, plural) ==
    NumberAt(s, FirstOf({ x \in 1..Len(s) : NumberAt(s, x, kw, plural) # <<>> }),
             kw, plural)

IntsOf(groups) == [ x \in 1..Len(groups) |-> int(groups[x]) ]

\* a variant whose pattern is 'page ([0-9]+)-([0-9]+)|page ([0-9]+)', without the "s?"
parse_page_info_no_plural(s) == IntsOf(NumberGroups(s, "page", FALSE))

parse_page_info(s) == IntsOf(NumberGroups(s, "page", TRUE))

parse_location_info(s) == IntsOf(NumberGroups(s, "Location", FALSE))

(***************************************************************************)
(* The standard library's date and time constructors and their str()       *)
(***************************************************************************)
IsLeap(y) == y % 4 = 0 /\ (y % 100 # 0 \/ y % 400 = 0)

DaysInMonth(y, m) ==
    IF m = 2 THEN (IF IsLeap(y) THEN 29 ELSE 28)
    ELSE IF m \in {4, 6, 9, 11} THEN 30
    ELSE 31

\* datetime.date(year, month, day): ValueError outside the calendar
date(year, month, day) ==
    IF year >= 1 /\ year <= 9999 /\ month >= 1 /\ month <= 12
          /\ day >= 1 /\ day <= DaysInMonth(year, month)
    THEN [tag |-> "date", year |-> year, month |-> month, day |-> day]
    ELSE Raise("ValueError")

\* datetime.time(hour, minute, second): ValueError outside the clock
time(hour, minutes, seconds) ==
    IF hour >= 0 /\ hour <= 23 /\ minutes >= 0 /\ minutes <= 59
          /\ seconds >= 0 /\ seconds <= 59
    THEN [tag |-> "time", hour |-> hour, minute |-> minutes, second |-> seconds]
    ELSE Raise("ValueError")

\* str(clip.date), str(clip.time): ISO text, "None" for None
str_of(v) ==
    IF v.tag = "date"
    THEN zfill(str(v.year), 4) \o "-" \o zfill(str(v.month), 2) \o "-" \o zfill(str(v.day), 2)
    ELSE IF v.tag = "time"
    THEN zfill(str(v.hour), 2) \o ":" \o zfill(str(v.minute), 2) \o ":" \o zfill(str(v.second), 2)
    ELSE "None"

(***************************************************************************)
(* parse_date_info                                                         *)
(*   r'Added on [a-z]+, ([a-z]+) ([0-9]{1,2}), ([0-9]{4})'                 *)
(***************************************************************************)
MONTHS ==
    [ m \in {"january", "february", "march", "april", "may", "june", "july",
             "august", "september", "october", "november", "december"} |->
        CASE m = "january" -> 1   [] m = "february" -> 2  [] m = "march" -> 3
          [] m = "april" -> 4     [] m = "may" -> 5       [] m = "june" -> 6
          [] m = "july" -> 7      [] m = "august" -> 8    [] m = "september" -> 9
          [] m = "october" -> 10  [] m = "november" -> 11 [] m = "december" -> 12 ]

\* the pattern at i: the groups <<month, day, year>>, or <<>>
DateAt(s, i) ==
    IF ~LitAt(s, i, "Added on ") THEN <<>>
    ELSE LET w  == i + 9                        \* the weekday, [a-z]+
             we == RunEnd(s, w, Letter)
             m  == we + 2                       \* the month, ([a-z]+)
             me == RunEnd(s, m, Letter)
             d  == me + 1                       \* the day, ([0-9]{1,2})
             de == RunEnd(s, d, Digit)
             y  == de + 2                       \* the year, ([0-9]{4})
             ye == RunEnd(s, y, Digit)
         IN  IF /\ we > w /\ LitAt(s, we, ", ")
                /\ me > m /\ Ch(s, me) = " "
                /\ de - d \in {1, 2} /\ LitAt(s, de, ", ")
                /\ ye - y >= 4
             THEN <<SubSeq(s, m, me - 1), SubSeq(s, d, de - 1), SubSeq(s, y, y + 3)>>
             ELSE <<>>

\* MONTHS[key]: 0 stands for the KeyError of a key that is not in the table
MonthOf(key) == IF key \in DOMAIN MONTHS THEN MONTHS[key] ELSE 0

\* the else branch of parse_date_info, on the groups <<month, day, year>>
DateOfGroups(year, month, day) ==
    IF month = 0 THEN Raise("KeyError") ELSE date(year, month, day)

DateOfMatch(g) ==
    IF g = <<>> THEN NoneVal
    ELSE DateOfGroups(int(g[3]), MonthOf(lower(g[1])), int(g[2]))

parse_date_info(s) ==
    DateOfMatch(DateAt(s, FirstOf({ x \in 1..Len(s) : DateAt(s, x) # <<>> })))

(***************************************************************************)
(* parse_time_info                                                         *)
(*   r'([0-9]{1,2}):([0-9]{1,2}):([0-9]{1,2}) ([AMP]+)$'                   *)
(***************************************************************************)
\* ([0-9]{1,2}) at i followed by the character next: the index of next, or 0.
\* Two digits are tried first, then one; next is no digit, so at most one fits.
TwoDigitsEnd(s, i, next) ==
    IF Ch(s, i) \in Digit /\ Ch(s, i + 1) \in Digit /\ Ch(s, i + 2) = next THEN i + 2
    ELSE IF Ch(s, i) \in Digit /\ Ch(s, i + 1) = next THEN i + 1
    ELSE 0

\* the pattern at i: the groups <<hour, minutes, seconds, period>>, or <<>>
TimeAt(s, i) ==
    LET h == TwoDigitsEnd(s, i, ":")
        m == IF h = 0 THEN 0 ELSE TwoDigitsEnd(s, h + 1, ":")
        c == IF m = 0 THEN 0 ELSE TwoDigitsEnd(s, m + 1, " ")
    IN  IF c # 0 /\ c < Len(s) /\ RunEnd(s, c + 1, AMPClass) = Len(s) + 1
        THEN <<SubSeq(s, i, h - 1), SubSeq(s, h + 1, m - 1), SubSeq(s, m + 1, c - 1),
               From(s, c + 1)>>
        ELSE <<>>

\* a variant that forgets the hour 12: PM always adds 12, AM never subtracts
To24h_without_twelve(hour, period) == IF period = "PM" THEN hour + 12 ELSE hour

\* "Convert from 12h time to 24h time"
To24h(hour, period) ==
    IF period = "PM" /\ hour # 12 THEN hour + 12
    ELSE IF period = "AM" /\ hour = 12 THEN hour - 12
    ELSE hour

\* the else branch of parse_time_info, on the groups <<hour, minutes, seconds, period>>
TimeOfMatch(g) ==
    IF g = <<>> THEN NoneVal
    ELSE time(To24h(int(g[1]), upper(g[4])), int(g[2]), int(g[3]))

parse_time_info(s) ==
    TimeOfMatch(TimeAt(s, FirstOf({ x \in 1..Len(s) : TimeAt(s, x) # <<>> })))

(***************************************************************************)
(* Classification and the building of a Clip                               *)
(***************************************************************************)
RawClip(source, info, blank, content, delimiter) ==
    [source |-> source, info |-> info, blank |-> blank, content |-> content,
     delimiter |-> delimiter]

\* a variant that compares the prefix without regard to case
get_rawclip_type_ignorecase(rclip) ==
    IF startswith(lower(rclip.info), lower("- Your Highlight")) THEN "highlight"
    ELSE IF startswith(lower(rclip.info), lower("- Your Note")) THEN "note"
    ELSE IF startswith(lower(rclip.info), lower("- Your Bookmark")) THEN "bookmark"
    ELSE "unparsed"

get_rawclip_type(rclip) ==
    IF startswith(rclip.info, "- Your Highlight") THEN "highlight"
    ELSE IF startswith(rclip.info, "- Your Note") THEN "note"
    ELSE IF startswith(rclip.info, "- Your Bookmark") THEN "bookmark"
    ELSE "unparsed"

\* The arguments of Clip(...) are evaluated left to right and all of them
\* whatever the type is: the first extractor that raises ends the call.
Clip(type, source, page, location, d, tm, content) ==
    IF IsRaise(d) THEN d
    ELSE IF IsRaise(tm) THEN tm
    ELSE [tag |-> "Clip", type |-> type, source |-> source, page |-> page,
          location |-> location, date |-> d, time |-> tm, content |-> content]

parse_rawclip(rawclip) ==
    Clip(get_rawclip_type(rawclip),
         rawclip.source,
         parse_page_info(rawclip.info),
         parse_location_info(rawclip.info),
         parse_date_info(rawclip.info),
         parse_time_info(rawclip.info),
         rawclip.content)

(***************************************************************************)
(* Output formatting                                                       *)
(***************************************************************************)
RECURSIVE join(_, _)
\* sep.join(items)
join(sep, items) ==
    IF items = <<>> THEN ""
    ELSE IF Len(items) = 1 THEN items[1]
    ELSE items[1] \o sep \o join(sep, Tail(items))

RECURSIVE concat(_)
\* ''.join(items)
concat(items) == IF items = <<>> THEN "" ELSE Head(items) \o concat(Tail(items))

RECURSIVE repeat(_, _)
\* s * n
repeat(s, n) == IF n <= 0 THEN "" ELSE s \o repeat(s, n - 1)

\* a variant that leaves the last ", " in place
pages_and_loc_to_str_trailing(p) ==
    IF Len(p) = 0 THEN "no data"
    ELSE IF Len(p) = 1 THEN str(p[1])
    ELSE IF Len(p) = 2 THEN str(p[1]) \o "-" \o str(p[2])
    ELSE concat([ i \in 1..Len(p) |-> str(p[i]) \o ", " ])

\* pp is a list here: parse_page_info and parse_location_info never return None
pages_and_loc_to_str(p) ==
    IF Len(p) = 0 THEN "no data"
    ELSE IF Len(p) = 1 THEN str(p[1])
    ELSE IF Len(p) = 2 THEN str(p[1]) \o "-" \o str(p[2])
    ELSE removesuffix(concat([ i \in 1..Len(p) |-> str(p[i]) \o ", " ]), ", ")

columns == 70

\* "{}".format(clip.type.capitalize): the method is not called, so what is
\* formatted is the repr of the bound method, which ends in the address of
\* the str object; id maps each type string to the address the run gave it.
capitalize_repr(type, id) ==
    "<built-in method capitalize of str object at " \o id[type] \o ">"

text_formatter(clips, id) ==
    LET delimiter == repeat("-", columns) \o "\n"
        c(clip) == concat(<<"Source: " \o clip.source \o "\n",
                            "Page: " \o pages_and_loc_to_str(clip.page) \o "\n",
                            "Location: " \o pages_and_loc_to_str(clip.location) \o "\n",
                            "Creation: " \o str_of(clip.date) \o " | "
                                         \o str_of(clip.time) \o "\n",
                            capitalize_repr(clip.type, id) \o ":\n\n",
                            clip.content \o "\n",
                            delimiter>>)
        result == [ i \in 1..Len(clips) |-> c(clips[i]) ]
    IN  delimiter \o join(delimiter, result) \o delimiter

org_formatter(clips) ==
    LET delimiter == "\n"
        c(clip) == join("\n", <<"* " \o clip.source \o "\n",
                                "  :PROPERTIES:",
                                "  :Source: " \o clip.source,
                                "  :Page: " \o pages_and_loc_to_str(clip.page),
                                "  :Location: " \o pages_and_loc_to_str(clip.location),
                                "  :Date: " \o str_of(clip.date),
                                "  :Time: " \o str_of(clip.time),
                                "  :Type: " \o clip.type \o ":",
                                "  :END:\n",
                                clip.content,
                                delimiter>>)
        result == [ i \in 1..Len(clips) |-> c(clips[i]) ]
    IN  delimiter \o join(delimiter, result)

\* the dict json_formatter builds for one clip
json_object(clip) ==
    [source   |-> clip.source,
     page     |-> clip.page,
     location |-> clip.location,
     date     |-> str_of(clip.date),
     time     |-> clip.source,
     type     |-> clip.type,
     content  |-> clip.content]

RECURSIVE json_string_body(_)
\* json.dumps of the characters of a str (ASCII text): '"' and '\' escaped
json_string_body(s) ==
    IF s = "" THEN ""
    ELSE (IF Head(s) = "\"" THEN "\\\""
          ELSE IF Head(s) = "\\" THEN "\\\\"
          ELSE IF Head(s) = "\n" THEN "\\n"
          ELSE Head(s)) \o json_string_body(Tail(s))

json_string(s) == "\"" \o json_string_body(s) \o "\""

\* json.dumps(list of int, indent=4) at two levels of nesting
json_int_list(p) ==
    IF Len(p) = 0 THEN "[]"
    ELSE "[\n" \o join(",\n", [ i \in 1..Len(p) |-> repeat(" ", 12) \o str(p[i]) ])
              \o "\n" \o repeat(" ", 8) \o "]"

\* json.dumps(result, indent=4)
json_dumps(objects) ==
    LET member(k, v) == repeat(" ", 8) \o json_string(k) \o ": " \o v
        object(o) == repeat(" ", 4) \o "{\n"
                     \o join(",\n", <<member("source", json_string(o.source)),
                                      member("page", json_int_list(o.page)),
                                      member("location", json_int_list(o.location)),
                                      member("date", json_string(o.date)),
                                      member("time", json_string(o.time)),
                                      member("type", json_string(o.type)),
                                      member("content", json_string(o.content))>>)
                     \o "\n" \o repeat(" ", 4) \o "}"
    IN  IF Len(objects) = 0 THEN "[]"
        ELSE "[\n" \o join(",\n", [ i \in 1..Len(objects) |-> object(objects[i]) ]) \o "\n]"

json_formatter(clips) == json_dumps([ i \in 1..Len(clips) |-> json_object(clips[i]) ])

format_clips(clips, format, id) ==
    CASE format = "text" -> text_formatter(clips, id)
      [] format = "org"  -> org_formatter(clips)
      [] format = "json" -> json_formatter(clips)
      [] OTHER           -> Raise("ValueError")

(***************************************************************************)
(* Messages                                                                *)
(***************************************************************************)
\* what print_rawclip_parsing_error prints for one entry of unparsed
print_rawclip_parsing_error(rclip, line_num) ==
    <<"Got an error while processing your Kindle clips file.",
      "The clip ending at line " \o str(line_num) \o " couldn't be parsed:",
      "    > " \o rclip.source,
      "ERR > " \o rclip.info,
      "    > " \o rclip.blank,
      "    > " \o rclip.content>>

RECURSIVE print_parsing_errors(_)
print_parsing_errors(rclips) ==
    IF rclips = <<>> THEN <<>>
    ELSE print_rawclip_parsing_error(rclips[1][1], rclips[1][2])
           \o print_parsing_errors(Tail(rclips))

\* x in types, for the list argparse builds (<<>> stands for None)
InTypes(x, types) == \E i \in 1..Len(types) : types[i] = x

print_extraction_messages(is_quiet, h, n, b, types) ==
    LET found(l, what) == <<"Found " \o str(Len(l)) \o " " \o what \o ".">>
    IN  IF is_quiet THEN <<>>
        ELSE IF types = <<>> THEN found(h, "highlights") \o found(n, "notes")
                                    \o found(b, "bookmarks")
        ELSE (IF InTypes("highlights", types) THEN found(h, "highlights") ELSE <<>>)
          \o (IF InTypes("notes", types) THEN found(n, "notes") ELSE <<>>)
          \o (IF InTypes("bookmarks", types) THEN found(b, "bookmarks") ELSE <<>>)

\* "Define which type of the extracted clips are needed"
select_results(h, n, b, types) ==
    IF types = <<>> THEN h \o n \o b
    ELSE (IF InTypes("highlights", types) THEN h ELSE <<>>)
      \o (IF InTypes("notes", types) THEN n ELSE <<>>)
      \o (IF InTypes("bookmarks", types) THEN b ELSE <<>>)

(***************************************************************************)
(* Inputs of the program: files made of five-line windows and a shorter    *)
(* tail, and command lines                                                 *)
(***************************************************************************)
MaxGroups == 2

Title1 == "Common LISP (Touretzky)"
Title2 == "Dune \"Book 1\" (Herbert)"
Equals == "=========="

InfoHighlight ==
    "- Your Highlight on page 46 | Location 694-694 | Added on Sunday, August 27, 2023 1:37:08 PM"
InfoNote == "- Your Note on pages 12-13 | Added on Monday, May 1, 2023 12:00:00 AM"
InfoBookmark == "- Your Bookmark Location 5"
InfoLowercase == "- your highlight on page 3"
InfoNoPrefixBadMonth == "Lost | Added on Sunday, Foo 27, 2023"
InfoHighlightBadDay == "- Your Highlight | Added on Friday, February 30, 2024"

\* windows of five lines; the last two do not follow the layout of the device
Windows ==
    { <<Title1, InfoHighlight, "", "The length of a list", Equals>>,
      <<Title2, InfoNote, "", "my note", Equals>>,
      <<Title1, InfoBookmark, "", "", Equals>>,
      <<Title2, InfoLowercase, "", "lower case", Equals>>,
      <<Title1, InfoNoPrefixBadMonth, "", "bad month", Equals>>,
      <<Title2, InfoHighlightBadDay, "", "bad day", Equals>>,
      <<Equals, Title1, InfoHighlight, "", "shifted by one">>,
      <<InfoNote, InfoNote, InfoNote, InfoNote, InfoNote>> }

\* what may follow the last window: fewer than five lines, and whether the
\* last line of the file ends in "\n"
Tails ==
    { [lines |-> <<>>, newline |-> TRUE],
      [lines |-> <<>>, newline |-> FALSE],
      [lines |-> <<Title1>>, newline |-> TRUE],
      [lines |-> <<Title2, InfoHighlight, "", "cut off">>, newline |-> FALSE] }

RECURSIVE Flatten(_)
Flatten(ws) == IF Len(ws) = 0 THEN <<>> ELSE Head(ws) \o Flatten(Tail(ws))

\* the lines as the file iterator yields them: each with its "\n", except
\* possibly the last one of the file
WithNewlines(lines, last_newline) ==
    [ i \in 1..Len(lines) |->
        IF i = Len(lines) /\ ~last_newline THEN lines[i] ELSE lines[i] \o "\n" ]

Files ==
    { WithNewlines(Flatten(ws) \o tail.lines, tail.newline) :
        ws \in UNION { [1..n -> Windows] : n \in 0..MaxGroups }, tail \in Tails }

\* argparse's Namespace; types <<>> and output <<>> stand for None
ArgsSet ==
    { [file |-> "My Clippings.txt", output |-> <<>>, format |-> "text",
       types |-> <<>>, quiet |-> FALSE],
      [file |-> "My Clippings.txt", output |-> <<"clips.json">>, format |-> "json",
       types |-> <<"notes", "highlights">>, quiet |-> TRUE],
      [file |-> "My Clippings.txt", output |-> <<>>, format |-> "org",
       types |-> <<"bookmarks">>, quiet |-> FALSE] }

\* the addresses a run may give the three type strings (they are distinct
\* objects, so the addresses differ)
Addresses == {"0x7f3a5c0e1230", "0x7f3a5c0e4570", "0x7f3a5c0e89b0"}

TypeIds ==
    { id \in [{"highlight", "note", "bookmark"} -> Addresses] :
        \A a, b \in DOMAIN id : a # b => id[a] # id[b] }

NoCall == [fn |-> "none"]

NoParts == [kind |-> "none"]

(***************************************************************************)
(* The program: the main script and, inside it, parse_rawclips_file        *)
(***************************************************************************)
Init ==
    /\ file \in Files
    /\ args \in ArgsSet
    /\ pos = 0
    /\ current_clip = <<>>
    /\ cnt = 1
    /\ line_cnt = 0
    /\ highlights = <<>>
    /\ notes = <<>>
    /\ bookmarks = <<>>
    /\ unparsed = <<>>
    /\ built = <<>>
    /\ pc = "start"
    /\ exc = "none"
    /\ results = <<>>
    /\ stdout = <<>>
    /\ written = <<>>
    /\ string = ""
    /\ given = NoParts
    /\ pp = <<>>
    /\ ret = NoCall

\* line 405, then the call of parse_rawclips_file up to its for loop
Start ==
    /\ pc = "start"
    /\ stdout' = IF args.quiet THEN stdout
                 ELSE Append(stdout, "Processing '" \o args.file \o "'.")
    /\ pc' = "loop"
    /\ UNCHANGED <<file, args, pos, current_clip, cnt, line_cnt, highlights, notes,
                   bookmarks, unparsed, built, exc, results, written, string, given, pp, ret>>

\* one iteration of the for loop with cnt < 5: collect the line
Collect ==
    /\ pc = "loop"
    /\ pos < Len(file)
    /\ ~(cnt >= 5)
    /\ current_clip' = Append(current_clip, removesuffix(file[pos + 1], "\n"))
    /\ line_cnt' = line_cnt + 1
    /\ cnt' = cnt + 1
    /\ pos' = pos + 1
    /\ UNCHANGED <<file, args, highlights, notes, bookmarks, unparsed, built, pc, exc,
                   results, stdout, written, string, given, pp, ret>>

\* one iteration of the for loop with cnt >= 5: build the RawClip, parse it
\* and put it into its bucket; an exception of parse_rawclip is caught nowhere
\* lines 92-110 for the RawClip rclip and what parse_rawclip made of it
Collected(rclip, clip) ==
    /\ built' = Append(built, rclip)
    /\ pos' = pos + 1
    /\ IF IsRaise(clip)
       THEN /\ pc' = "crashed"
            /\ exc' = clip.exc
            /\ UNCHANGED <<highlights, notes, bookmarks, unparsed,
                           current_clip, cnt, line_cnt>>
       ELSE /\ highlights' = IF clip.type = "highlight"
                             THEN Append(highlights, clip) ELSE highlights
            /\ notes' = IF clip.type = "note" THEN Append(notes, clip) ELSE notes
            /\ bookmarks' = IF clip.type = "bookmark"
                            THEN Append(bookmarks, clip) ELSE bookmarks
            /\ unparsed' = IF clip.type = "unparsed"
                           THEN Append(unparsed, <<rclip, line_cnt>>)
                           ELSE unparsed
            /\ current_clip' = <<>>
            /\ cnt' = 1
            /\ line_cnt' = line_cnt + 1
            /\ UNCHANGED <<pc, exc>>

Parsed(rclip) == Collected(rclip, parse_rawclip(rclip))

Resolve ==
    /\ pc = "loop"
    /\ pos < Len(file)
    /\ cnt >= 5
    /\ Parsed(RawClip(current_clip[1], current_clip[2], current_clip[3],
                      current_clip[4], removesuffix(file[pos + 1], "\n")))
    /\ UNCHANGED <<file, args, results, stdout, written, string, given, pp, ret>>

\* the else of the for loop: the Extraction is returned to the main script
Return ==
    /\ pc = "loop"
    /\ pos = Len(file)
    /\ pc' = "report"
    /\ UNCHANGED <<file, args, pos, current_clip, cnt, line_cnt, highlights, notes,
                   bookmarks, unparsed, built, exc, results, stdout, written,
                   string, given, pp, ret>>

\* lines 412-413
Report ==
    /\ pc = "report"
    /\ stdout' = stdout
                   \o (IF args.quiet THEN <<>> ELSE print_parsing_errors(unparsed))
                   \o print_extraction_messages(args.quiet, highlights, notes,
                                                bookmarks, args.types)
    /\ pc' = "select"
    /\ UNCHANGED <<file, args, pos, current_clip, cnt, line_cnt, highlights, notes,
                   bookmarks, unparsed, built, exc, results, written, string, given, pp, ret>>

\* lines 417-428
Select ==
    /\ pc = "select"
    /\ results' = select_results(highlights, notes, bookmarks, args.types)
    /\ pc' = "output"
    /\ UNCHANGED <<file, args, pos, current_clip, cnt, line_cnt, highlights, notes,
                   bookmarks, unparsed, built, exc, stdout, written, string, given, pp, ret>>

\* lines 431-435
Output ==
    /\ pc = "output"
    /\ \E id \in TypeIds :
         LET text == format_clips(results, args.format, id)
         IN  IF args.output = <<>>
             THEN stdout' = Append(stdout, text) /\ written' = written
             ELSE written' = <<[path |-> args.output[1], text |-> text]>>
                  /\ stdout' = stdout
    /\ pc' = "done"
    /\ UNCHANGED <<file, args, pos, current_clip, cnt, line_cnt, highlights, notes,
                   bookmarks, unparsed, built, exc, results, string, given, pp, ret>>

Next == Start \/ Collect \/ Resolve \/ Return \/ Report \/ Select \/ Output

Spec == Init /\ [][Next]_vars

(***************************************************************************)
(* The field extractors called on their own, on info lines put together    *)
(* from parts                                                              *)
(***************************************************************************)
MaxHour == 13

MinutesSeconds == { <<0, 0>>, <<37, 8>>, <<59, 59>>, <<60, 0>>, <<5, 61>> }

Periods == {"AM", "PM", "am", "Pm", "A", "MAP"}

TimePrefixes == {"", "- Your Note on page 12 | Added on Monday, May 1, 2023 "}

\* the time as the device writes it: H:MM:SS and the period
TimeText(p) ==
    p.prefix \o str(p.hour) \o ":" \o zfill(str(p.minute), 2) \o ":"
             \o zfill(str(p.second), 2) \o " " \o p.period

TimeParts ==
    { [kind |-> "time", prefix |-> x, hour |-> h, minute |-> ms[1], second |-> ms[2],
       period |-> per] :
        x \in TimePrefixes, h \in 0..MaxHour, ms \in MinutesSeconds, per \in Periods }

Keywords == {"page", "pages", "Page", "PAGES", "Location", "location", "loc"}

Numbers == {0, 7, 46, 694}

NumberPrefixes == {"", "- Your Highlight on "}

NumberSuffixes == {"", " | Added on Sunday, August 27, 2023 1:37:08 PM"}

\* "page 46", "Location 694-694": form is "single" or "range"
NumberText(p) ==
    p.prefix \o p.keyword \o " " \o str(p.n)
             \o (IF p.form = "range" THEN "-" \o str(p.m) ELSE "") \o p.suffix

NumberParts ==
    { [kind |-> "number", prefix |-> x, keyword |-> kw, form |-> "range", n |-> n,
       m |-> m, suffix |-> y] :
        x \in NumberPrefixes, kw \in Keywords, n \in Numbers, m \in Numbers,
        y \in NumberSuffixes }
    \cup
    { [kind |-> "number", prefix |-> x, keyword |-> kw, form |-> "single", n |-> n,
       m |-> n, suffix |-> y] :
        x \in NumberPrefixes, kw \in Keywords, n \in Numbers, y \in NumberSuffixes }

PlainParts ==
    { [kind |-> "plain", text |-> x] :
        x \in {"", Equals, Title1, InfoBookmark, InfoNoPrefixBadMonth,
               InfoHighlightBadDay, InfoHighlight} }

TextOf(p) ==
    IF p.kind = "time" THEN TimeText(p)
    ELSE IF p.kind = "number" THEN NumberText(p)
    ELSE p.text

ExtractInit ==
    /\ given \in TimeParts \cup NumberParts \cup PlainParts
    /\ string = TextOf(given)
    /\ pp = <<>>
    /\ ret = NoCall
    /\ pc = "call"
    /\ file = <<>>
    /\ args = [format |-> "text"]
    /\ pos = 0
    /\ current_clip = <<>>
    /\ cnt = 1
    /\ line_cnt = 0
    /\ highlights = <<>>
    /\ notes = <<>>
    /\ bookmarks = <<>>
    /\ unparsed = <<>>
    /\ built = <<>>
    /\ exc = "none"
    /\ results = <<>>
    /\ stdout = <<>>
    /\ written = <<>>

Returned(fn, val) ==
    /\ pc = "call"
    /\ ret' = [fn |-> fn, val |-> val]
    /\ pc' = "returned"
    /\ UNCHANGED <<file, args, pos, current_clip, cnt, line_cnt, highlights, notes,
                   bookmarks, unparsed, built, exc, results, stdout, written,
                   string, given, pp>>

CallPage == Returned("parse_page_info", parse_page_info(string))

CallLocation == Returned("parse_location_info", parse_location_info(string))

CallDate == Returned("parse_date_info", parse_date_info(string))

CallTime == Returned("parse_time_info", parse_time_info(string))

ExtractNext == CallPage \/ CallLocation \/ CallDate \/ CallTime

SpecExtract == ExtractInit /\ [][ExtractNext]_vars

(***************************************************************************)
(* pages_and_loc_to_str called on its own, on lists of any length          *)
(***************************************************************************)
MaxLen == 4

Lists == UNION { [1..n -> {0, 7, 46}] : n \in 0..MaxLen }

PrettyInit ==
    /\ pp \in Lists
    /\ string = ""
    /\ given = NoParts
    /\ ret = NoCall
    /\ pc = "call"
    /\ file = <<>>
    /\ args = [format |-> "text"]
    /\ pos = 0
    /\ current_clip = <<>>
    /\ cnt = 1
    /\ line_cnt = 0
    /\ highlights = <<>>
    /\ notes = <<>>
    /\ bookmarks = <<>>
    /\ unparsed = <<>>
    /\ built = <<>>
    /\ exc = "none"
    /\ results = <<>>
    /\ stdout = <<>>
    /\ written = <<>>

CallPretty == Returned("pages_and_loc_to_str", pages_and_loc_to_str(pp))

PrettyNext == CallPretty

SpecPretty == PrettyInit /\ [][PrettyNext]_vars

(***************************************************************************)
(* Properties                                                              *)
(***************************************************************************)
\* a line of the file without its line end
Strip(line) ==
    IF Len(line) > 0 /\ SubSeq(line, Len(line), Len(line)) = "\n"
    THEN SubSeq(line, 1, Len(line) - 1)
    ELSE line

\* the complete five-line groups of the file, and line j of group k
NGroups == Len(file) \div 5

GroupLine(k, j) == Strip(file[5 * (k - 1) + j])

GroupRecord(k) ==
    [source |-> GroupLine(k, 1), info |-> GroupLine(k, 2), blank |-> GroupLine(k, 3),
     content |-> GroupLine(k, 4), delimiter |-> GroupLine(k, 5)]

\* the kind the prefix of an info line states
PrefixKind(info) ==
    IF Len(info) >= 16 /\ SubSeq(info, 1, 16) = "- Your Highlight" THEN "highlight"
    ELSE IF Len(info) >= 11 /\ SubSeq(info, 1, 11) = "- Your Note" THEN "note"
    ELSE IF Len(info) >= 15 /\ SubSeq(info, 1, 15) = "- Your Bookmark" THEN "bookmark"
    ELSE "unparsed"

RECURSIVE GroupsOfKind(_, _)
\* the groups among the first n whose prefix states kind, in input order
GroupsOfKind(n, kind) ==
    IF n = 0 THEN <<>>
    ELSE IF PrefixKind(GroupLine(n, 2)) = kind THEN Append(GroupsOfKind(n - 1, kind), n)
    ELSE GroupsOfKind(n - 1, kind)

\* bucket holds, in input order, one Clip of that kind for each group of idx
ClipsOf(bucket, kind, idx) ==
    /\ Len(bucket) = Len(idx)
    /\ \A j \in 1..Len(idx) :
         /\ bucket[j].type = kind
         /\ bucket[j].source = GroupLine(idx[j], 1)
         /\ bucket[j].content = GroupLine(idx[j], 4)

RecordsOf(bucket, idx) ==
    /\ Len(bucket) = Len(idx)
    /\ \A j \in 1..Len(idx) : bucket[j][1] = GroupRecord(idx[j])

\* parse_rawclips_file has returned its Extraction
HasReturned == pc \in {"report", "select", "output", "done"}

\* C1: when no field extraction fails, every complete group is in exactly
\* one bucket, the one its info line's prefix states; a group without a known
\* prefix is in no kind bucket; each bucket keeps the input order.
C1_Partition ==
    HasReturned =>
      /\ ClipsOf(highlights, "highlight", GroupsOfKind(NGroups, "highlight"))
      /\ ClipsOf(notes, "note", GroupsOfKind(NGroups, "note"))
      /\ ClipsOf(bookmarks, "bookmark", GroupsOfKind(NGroups, "bookmark"))
      /\ RecordsOf(unparsed, GroupsOfKind(NGroups, "unparsed"))
      /\ Len(highlights) + Len(notes) + Len(bookmarks) + Len(unparsed) = NGroups

\* two notes of one file, in their input order, after the whole program ran
C1_Witness ==
    /\ pc = "done"
    /\ Len(notes) = 2
    /\ notes[1].source = Title2
    /\ notes[2].source = InfoNote

\* unparsed records next to a clip: the lower-case prefix is no known prefix
C1_WitnessUnparsed ==
    /\ pc = "done"
    /\ Len(highlights) = 1
    /\ Len(unparsed) = 1
    /\ unparsed[1][1].info = InfoLowercase

\* C2: every entry of unparsed carries the number of lines consumed up to
\* and including the delimiter of its group: 5 * k for the k-th group.
C2_EndingLine ==
    \A j \in 1..Len(unparsed) :
      \E k \in 1..Len(built) : built[k] = unparsed[j][1] /\ unparsed[j][2] = 5 * k

\* what the code stores instead: the lines consumed before the delimiter
C2_Stored ==
    \A j \in 1..Len(unparsed) :
      \E k \in 1..Len(built) : built[k] = unparsed[j][1] /\ unparsed[j][2] = 5 * k - 1

\* C3: a record whose info line has no known prefix never ends the parse,
\* whatever else the line holds.
C3_NonFatal ==
    pc = "crashed" => PrefixKind(built[Len(built)].info) # "unparsed"

\* the loop of parse_rawclips_file is over: it returned or it raised
LoopOver == pc \notin {"start", "loop"}

\* C4: whatever the lines hold, floor(L/5) raw records are built, the k-th
\* from the lines 5k-4..5k, no error is raised, and the lines of a shorter
\* tail add nothing to the Extraction.
C4_Positional ==
    LoopOver =>
      /\ Len(built) = NGroups
      /\ \A k \in 1..NGroups : built[k] = GroupRecord(k)
      /\ exc = "none"
      /\ Len(highlights) + Len(notes) + Len(bookmarks) + Len(unparsed) = NGroups

\* what holds of the code: the records built are positional, as many as the
\* loop reached; all floor(L/5) of them when no extractor raised
C4_Built ==
    /\ Len(built) <= NGroups
    /\ \A k \in 1..Len(built) : built[k] = GroupRecord(k)
    /\ HasReturned => Len(built) = NGroups

\* what the program put out: the last print, or the file written
OutputText == IF args.output = <<>> THEN stdout[Len(stdout)] ELSE written[1].text

\* the object of the json output for one clip, each field from the field of
\* the same name
ObjectOf(clip) ==
    [source   |-> clip.source,
     page     |-> clip.page,
     location |-> clip.location,
     date     |-> str_of(clip.date),
     time     |-> str_of(clip.time),
     type     |-> clip.type,
     content  |-> clip.content]

\* C5: in the json output every object is made field by field from the
\* field of that name of its Clip: time is the text of the Clip's time.
C5_JsonFields ==
    (pc = "done" /\ args.format = "json") =>
      OutputText = json_dumps([ i \in 1..Len(results) |-> ObjectOf(results[i]) ])

\* the block of the text output for one clip, with the kind header the
\* claim states
BlockOf(clip) ==
    "Source: " \o clip.source \o "\n"
      \o "Page: " \o pages_and_loc_to_str(clip.page) \o "\n"
      \o "Location: " \o pages_and_loc_to_str(clip.location) \o "\n"
      \o "Creation: " \o str_of(clip.date) \o " | " \o str_of(clip.time) \o "\n"
      \o (CASE clip.type = "highlight" -> "Highlight"
            [] clip.type = "note" -> "Note"
            [] clip.type = "bookmark" -> "Bookmark") \o ":\n\n"
      \o clip.content \o "\n"
      \o repeat("-", 70) \o "\n"

\* C6: in the text output every block has the capitalized kind name and a
\* colon between the creation line and the content.
C6_KindHeader ==
    (pc = "done" /\ args.format = "text") =>
      OutputText = repeat("-", 70) \o "\n"
                     \o join(repeat("-", 70) \o "\n",
                             [ i \in 1..Len(results) |-> BlockOf(results[i]) ])
                     \o repeat("-", 70) \o "\n"

\* the hour the rule of the claim gives
ClaimedHour(h, period) ==
    CASE period \in {"PM", "pm", "Pm", "pM"} /\ h # 12 -> h + 12
      [] period \in {"AM", "am", "Am", "aM"} /\ h = 12 -> 0
      [] OTHER -> h

\* C7: for an hour 1..12 and a period AM or PM in any case, parse_time_info
\* gives the hour of the rule (PM and not 12: +12; AM and 12: 0; else as it
\* is), an hour in 0..23, and the minutes and seconds as matched.
C7_TimeConversion ==
    ( /\ pc = "returned"
      /\ ret.fn = "parse_time_info"
      /\ given.kind = "time"
      /\ given.hour \in 1..12
      /\ given.minute \in 0..59
      /\ given.second \in 0..59
      /\ given.period \in {"AM", "am", "Am", "aM", "PM", "pm", "Pm", "pM"} )
    => /\ ret.val = [tag |-> "time", hour |-> ClaimedHour(given.hour, given.period),
                     minute |-> given.minute, second |-> given.second]
       /\ ret.val.hour \in 0..23

\* 12:00:00 am at the end of a whole info line was read as 00:00:00
C7_Witness ==
    /\ pc = "returned"
    /\ ret.fn = "parse_time_info"
    /\ given.kind = "time"
    /\ given.prefix # ""
    /\ given.hour = 12 /\ given.minute = 0 /\ given.second = 0
    /\ given.period = "am"
    /\ ret.val = [tag |-> "time", hour |-> 0, minute |-> 0, second |-> 0]

\* the keyword is one the pattern of the function fn accepts in this form
Accepts(fn, keyword, form) ==
    IF fn = "parse_page_info"
    THEN (form = "range" /\ keyword \in {"page", "pages", "Page", "PAGES"})
           \/ (form = "single" /\ keyword \in {"page", "Page"})
    ELSE keyword \in {"Location", "location"}

\* the keyword belongs to the other function, or to none
Foreign(fn, keyword) ==
    IF fn = "parse_page_info" THEN keyword \in {"Location", "location", "loc"}
    ELSE keyword \in {"page", "pages", "Page", "PAGES", "loc"}

\* C8: page and location hold at most two integers: <<N, M>> for the range
\* form, <<N>> for the single form, <<>> for no match, and no error.
C8_AtMostTwo ==
    (pc = "returned" /\ ret.fn \in {"parse_page_info", "parse_location_info"}) =>
      /\ Len(ret.val) <= 2
      /\ (given.kind = "number" /\ Accepts(ret.fn, given.keyword, given.form)) =>
           ret.val = IF given.form = "range" THEN <<given.n, given.m>> ELSE <<given.n>>
      /\ (given.kind = "number" /\ Foreign(ret.fn, given.keyword)) => ret.val = <<>>
      /\ (given.kind = "plain" /\ given.text \in {"", Equals, Title1}) => ret.val = <<>>

\* "PAGES 46-694" inside a whole info line gave the two numbers
C8_Witness ==
    /\ pc = "returned"
    /\ ret.fn = "parse_page_info"
    /\ given.kind = "number"
    /\ given.keyword = "PAGES"
    /\ given.prefix # "" /\ given.suffix # ""
    /\ ret.val = <<46, 694>>

RECURSIVE Joined(_)
\* the values in order, ", " between each two of them
Joined(p) ==
    IF Len(p) = 1 THEN str(p[1])
    ELSE Joined(SubSeq(p, 1, Len(p) - 1)) \o ", " \o str(p[Len(p)])

\* C9: pages_and_loc_to_str gives "no data" for no value, the value for
\* one, "a-b" for two, and the values joined by ", " for more.
C9_Pretty ==
    (pc = "returned" /\ ret.fn = "pages_and_loc_to_str") =>
      ret.val = CASE Len(pp) = 0 -> "no data"
                  [] Len(pp) = 1 -> str(pp[1])
                  [] Len(pp) = 2 -> str(pp[1]) \o "-" \o str(pp[2])
                  [] OTHER -> Joined(pp)

\* a list of three values came out joined, without a separator at the end
C9_Witness ==
    /\ pc = "returned"
    /\ ret.fn = "pages_and_loc_to_str"
    /\ pp = <<7, 46, 0>>
    /\ ret.val = "7, 46, 0"

\* a is b with exactly one entry more at its end
OneMore(a, b) == Len(a) = Len(b) + 1 /\ SubSeq(a, 1, Len(b)) = b

\* b is a, or a with entries added at its end
Extends(a, b) == Len(a) >= Len(b) /\ SubSeq(a, 1, Len(b)) = b

\* C10: consuming one of the first four lines of a group changes no bucket;
\* consuming the fifth appends one entry to exactly one bucket; no step
\* removes, replaces or reorders an entry.
C10_AppendOnly ==
    [][ /\ Extends(highlights', highlights) /\ Extends(notes', notes)
        /\ Extends(bookmarks', bookmarks) /\ Extends(unparsed', unparsed)
        /\ (pos' = pos + 1 /\ cnt < 5) =>
             <<highlights, notes, bookmarks, unparsed>>' =
               <<highlights, notes, bookmarks, unparsed>>
        /\ (pos' = pos + 1 /\ cnt >= 5) =>
             \/ OneMore(highlights', highlights)
                  /\ UNCHANGED <<notes, bookmarks, unparsed>>
             \/ OneMore(notes', notes)
                  /\ UNCHANGED <<highlights, bookmarks, unparsed>>
             \/ OneMore(bookmarks', bookmarks)
                  /\ UNCHANGED <<highlights, notes, unparsed>>
             \/ OneMore(unparsed', unparsed)
                  /\ UNCHANGED <<highlights, notes, bookmarks>> ]_vars

\* what holds of the code: buckets only grow at their end, and a step that
\* consumes a fifth line without raising appends to exactly one of them
C10_Grow ==
    [][ /\ Extends(highlights', highlights) /\ Extends(notes', notes)
        /\ Extends(bookmarks', bookmarks) /\ Extends(unparsed', unparsed)
        /\ (pos' = pos + 1 /\ cnt >= 5 /\ pc' # "crashed") =>
             Len(highlights') + Len(notes') + Len(bookmarks') + Len(unparsed')
               = Len(highlights) + Len(notes) + Len(bookmarks) + Len(unparsed) + 1 ]_vars

====
